---------------------------- MODULE Spec2Model ----------------------------
(***************************************************************************)
(* Model of the m365-copilot-gateway (src/server.js).                      *)
(*                                                                         *)
(*   Spec      one streamed POST /v1/chat/completions response: the SSE    *)
(*             translation loop (carry buffer, block parsing, watermark    *)
(*             delta, terminal sequence) and its pushDebugEvent calls.     *)
(*   CancelSpec  the same, with a caller that may disconnect.              *)
(*   RingSpec  pushDebugEvent calls of concurrent streams on the shared    *)
(*             Redis list debug:last_events, for every capacity.           *)
(*                                                                         *)
(* Text is modelled by TLA+ strings, character by character: the upstream  *)
(* puts event blocks on the wire, reader.read() hands over an arbitrary    *)
(* prefix of what is on the wire, and the handler's string operations      *)
(* (indexOf, slice, split, trim, startsWith, join) are the operators       *)
(* below.                                                                  *)
(***************************************************************************)
EXTENDS Integers, Sequences, FiniteSets, TLC

(***************************************************************************)
(* Bounds of the model.                                                    *)
(***************************************************************************)
\* number of event blocks the upstream sends in one stream
MaxBlocks == 3
\* the upstream sends its next block only while at most this many
\* characters are still unread on the wire
MaxWire == 1
\* a read returns the unread text but for at most this many last characters
MaxHold == 1
\* capacity of the diagnostic list used in the stream specification
StreamLimit == 2
\* largest configured capacity of the diagnostic list
MaxCapacity == 2
\* number of pushDebugEvent calls started by concurrent streams
MaxPush == 4
\* number of status polls of the device transaction
MaxPolls == 3
\* number of key management requests
MaxAdmin == 2
\* number of messages in a message list of an event
MaxMsgs == 2
\* number of complete blocks of an upstream text that is read in parts
MaxSplitBlocks == 2
\* number of token generations the provider issues per account
MaxVer == 2

(***************************************************************************)
(* JavaScript string primitives used by the handler.                       *)
(***************************************************************************)
Min(S) == CHOOSE x \in S : \A y \in S : x <= y

Max(S) == CHOOSE x \in S : \A y \in S : x >= y

\* s.slice(from) / s.slice(from, to) with 0-based, end-exclusive indexes
Slice(s, from, to) ==
  LET t == Min({to, Len(s)})
  IN  IF from >= t THEN "" ELSE SubSeq(s, from + 1, t)

SliceFrom(s, from) == Slice(s, from, Len(s))

\* s.indexOf(pat): 0-based position of the first occurrence, or -1
IndexOf(s, pat) ==
  LET hits == { i \in 1..(Len(s) - Len(pat) + 1) :
                  SubSeq(s, i, i + Len(pat) - 1) = pat }
  IN  IF hits = {} THEN -1 ELSE Min(hits) - 1

StartsWith(s, pre) == Len(s) >= Len(pre) /\ SubSeq(s, 1, Len(pre)) = pre

IsSpace(c) == c \in {" ", "\t", "\r", "\n"}

RECURSIVE TrimEnd(_)
TrimEnd(s) ==
  IF s # "" /\ IsSpace(SubSeq(s, Len(s), Len(s)))
  THEN TrimEnd(SubSeq(s, 1, Len(s) - 1))
  ELSE s

RECURSIVE TrimStart(_)
TrimStart(s) ==
  IF s # "" /\ IsSpace(SubSeq(s, 1, 1))
  THEN TrimStart(SubSeq(s, 2, Len(s)))
  ELSE s

Trim(s) == TrimEnd(TrimStart(s))

\* s.split("\n")
RECURSIVE SplitLines(_)
SplitLines(s) ==
  LET i == IndexOf(s, "\n")
  IN  IF i = -1 THEN << s >>
      ELSE << Slice(s, 0, i) >> \o SplitLines(SliceFrom(s, i + 1))

\* lines.join("\n")
RECURSIVE JoinLines(_)
JoinLines(ls) ==
  IF ls = << >> THEN ""
  ELSE IF Len(ls) = 1 THEN ls[1]
  ELSE ls[1] \o "\n" \o JoinLines(Tail(ls))

(***************************************************************************)
(* JSON payloads.  JSON.parse is modelled on the payloads that occur in    *)
(* the model: the strings below are valid JSON and parse to the objects    *)
(* given; every other payload that can occur is not valid JSON.  A parsed  *)
(* object is a record; an optional member is a sequence of length 0        *)
(* (absent) or 1 (present).                                                *)
(***************************************************************************)
Absent == << >>

Msg(t) == [ text |-> << t >>, content |-> Absent, mtext |-> Absent ]

Obj(ms, ws, err) == [ messages |-> ms, wrapped |-> ws, error |-> err ]

\* the texts a message of the model can carry
Texts == { "Hi", "Hi there", "Hi there!", "Yo" }

MsgPayload(t) == "{\"messages\":[{\"text\":\"" \o t \o "\"}]}"

\* the same object written over two data lines
MsgPayload2(t) == "{\"messages\":\n[{\"text\":\"" \o t \o "\"}]}"

ErrPayload == "{\"error\":\"x\"}"

BadPayload == "{oops"

ParseJSON(payload) ==
  IF \E t \in Texts : payload \in { MsgPayload(t), MsgPayload2(t) }
  THEN [ ok |-> TRUE,
         obj |-> Obj(<< << Msg(CHOOSE t \in Texts :
                              payload \in { MsgPayload(t), MsgPayload2(t) }) >> >>,
                     Absent, FALSE) ]
  ELSE IF payload = ErrPayload
  THEN [ ok |-> TRUE, obj |-> Obj(Absent, Absent, TRUE) ]
  ELSE [ ok |-> FALSE ]

(***************************************************************************)
(* Text extraction (extractTextFromMessage, extractBestTextFromEvent).     *)
(* The result is Absent for null, << t >> for the string t.                *)
(***************************************************************************)
extractTextFromMessage(msg) ==
  IF msg.text # Absent THEN msg.text
  ELSE IF msg.content # Absent THEN msg.content
  ELSE msg.mtext

\* !t : null or the empty string
Falsy(t) == t = Absent \/ t[1] = ""

\* the texts are compared as they are, without trim()
IsEchoExact(t, promptEcho) == promptEcho # "" /\ t[1] = promptEcho

\* promptEcho && t.trim() === promptEcho.trim()
IsEcho(t, promptEcho) == promptEcho # "" /\ Trim(t[1]) = Trim(promptEcho)

\* the text of the last message that has one and is not the echoed prompt
LastNonEchoText(ms, promptEcho) ==
  LET ok == { i \in 1..Len(ms) :
                /\ ~Falsy(extractTextFromMessage(ms[i]))
                /\ ~IsEcho(extractTextFromMessage(ms[i]), promptEcho) }
  IN  IF ok = {} THEN Absent ELSE extractTextFromMessage(ms[Max(ok)])

\* the text of the last message that has one
LastNonEmptyText(ms) ==
  LET ok == { i \in 1..Len(ms) : ~Falsy(extractTextFromMessage(ms[i])) }
  IN  IF ok = {} THEN Absent ELSE extractTextFromMessage(ms[Max(ok)])

extractBestTextFromEvent(obj, promptEcho) ==
  LET primary == IF obj.messages # Absent /\ obj.messages[1] # << >>
                 THEN LET ms == obj.messages[1]
                      IN  IF LastNonEchoText(ms, promptEcho) # Absent
                          THEN LastNonEchoText(ms, promptEcho)
                          ELSE LastNonEmptyText(ms)
                 ELSE Absent
  IN  IF primary # Absent THEN primary
      ELSE IF obj.wrapped # Absent /\ obj.wrapped[1] # << >>
      THEN LastNonEmptyText(obj.wrapped[1])
      ELSE Absent

\* buildPrompt's result for the request under observation
Prompt == "SYSTEM: h\nUSER: q\nASSISTANT:"

(***************************************************************************)
(* State.                                                                  *)
(***************************************************************************)
VARIABLES
  \* configuration (process environment, read once at start-up)
  EMPTY_RESPONSE_HINT,  \* env.EMPTY_RESPONSE_HINT !== "0"
  DEBUG_EVENT_LIMIT,    \* parseInt(env.DEBUG_EVENT_LIMIT || "50", 10)
  \* the upstream byte stream of the request under observation
  wire,          \* text sent by the upstream and not yet read
  upEnded,       \* the upstream has closed its stream
  sent,          \* number of blocks the upstream has sent
  \* locals of the streaming branch of POST /v1/chat/completions
  pc,            \* position of the handler
  carry,         \* let carry
  fullText,      \* let fullText (the watermark)
  blocks,        \* let blocks
  jsonFail,      \* let jsonFail
  curPayload,    \* payload of the block being processed
  out,           \* the chunks written with res.write, in order
  closed,        \* res.end() was called
  disconnected,  \* the caller has closed the connection
  texts,         \* history: the texts extracted from the parsed events
  \* Redis list debug:last_events and the pushDebugEvent calls in progress
  debugList,     \* the list, head (newest) first
  pushPc,        \* per caller: position inside pushDebugEvent
  pushObj,       \* per caller: the entry being pushed
  pushed         \* history: number of LPUSH commands executed

streamVars == << wire, upEnded, sent, pc, carry, fullText, blocks, jsonFail,
                 curPayload, out, closed, disconnected, texts >>

ringVars == << debugList, pushPc, pushObj, pushed >>

confVars == << EMPTY_RESPONSE_HINT, DEBUG_EVENT_LIMIT >>

VARIABLES
  \* Redis keys of the credential store
  devtx,         \* devtx:<txId> of the transaction under observation
  msalBlob,      \* msal:<homeAccountId>, per account
  accountRec,    \* the accounts that have an account:<homeAccountId> record
  userkey,       \* userkey:<key>, per key: the account or ""
  \* the process-wide MSAL client and the identity provider
  memCache,      \* msal.getTokenCache(): per account the token generation, 0 for none
  provVer,       \* per account the newest token generation the provider issued
  \* POST /auth/device/start of the transaction under observation
  startPc,       \* position of the request handler
  startResp,     \* the body sent with res.json(info)
  infoResolved,  \* infoPromise was resolved
  bgPc,          \* position of the detached continuation
  cbPc,          \* position of deviceCodeCallback
  bgAcct,        \* result.account.homeAccountId
  bgCur,         \* the record read back by the continuation (done / cur)
  \* GET /auth/device/status/:txId
  polls,         \* history: the responses to the polls made so far
  \* history of the transaction
  provState,     \* what the provider has done: "none", "code", "ok", "failed"
  completeStored,\* the complete record was written
  \* acquireAccessToken calls in progress
  acqPc,         \* per request: position inside acquireAccessToken
  acqAcct,       \* per request: account.homeAccountId
  acqCached      \* per request: const cached

storeVars == << devtx, msalBlob, accountRec, userkey >>

msalVars == << memCache, provVer >>

deviceVars == << startPc, startResp, infoResolved, bgPc, cbPc, bgAcct, bgCur >>

txHistory == << polls, provState, completeStored >>

acqVars == << acqPc, acqAcct, acqCached >>

authVars == << storeVars, msalVars, deviceVars, txHistory, acqVars >>

VARIABLES
  \* one POST /v1/chat/completions request up to its first write
  reqKey,         \* the X-User-Key header: [present, value]
  reqSession,     \* req.session.account.homeAccountId, "" when there is none
  reqStream,      \* body.stream
  chatPc,         \* position of the handler
  chatCtx,        \* getUserContext: "none", "userkey", "session"
  chatHome,       \* reply of redis.get(`userkey:...`), "" for null
  chatAccount,    \* account, "" for null
  chatLookup,     \* outcome of getAccountByUserKey: "none", "found", "notfound", "failed"
  chatResp,       \* the responses written: sequence of [status, err]
  headersWritten, \* res.writeHead(200, text/event-stream) ran
  tokenAsked,     \* acquireAccessToken was called
  upstreamCalled, \* a Graph request was sent
  chatFailure,    \* the awaited call that threw: "", "lookup", "token", ...
  \* requests to the key management routes of the README
  adminLog

chatVars == << reqKey, reqSession, reqStream, chatPc, chatCtx, chatHome,
               chatAccount, chatLookup, chatResp, headersWritten, tokenAsked,
               upstreamCalled, chatFailure >>

reqVars == << chatVars, adminLog >>

\* req.headers["x-user-key"] is undefined
NoHeader == [ present |-> FALSE, value |-> "" ]

\* no chat request and no key management request so far
ReqIdle ==
  /\ reqKey = NoHeader
  /\ reqSession = ""
  /\ reqStream = FALSE
  /\ chatPc = "idle"
  /\ chatCtx = "none"
  /\ chatHome = ""
  /\ chatAccount = ""
  /\ chatLookup = "none"
  /\ chatResp = << >>
  /\ headersWritten = FALSE
  /\ tokenAsked = FALSE
  /\ upstreamCalled = FALSE
  /\ chatFailure = ""
  /\ adminLog = << >>

VARIABLES
  \* one call of extractBestTextFromEvent
  exObj,      \* the parsed event
  exEcho,     \* promptEcho
  exResult,   \* what the call returned
  exPc,       \* "idle", "called", "returned"
  \* one upstream text read in chunks by the block loop
  spAll,      \* the whole text the upstream sends
  spRest,     \* what has not been read yet
  spCarry,    \* carry
  spFull,     \* fullText
  spBlocks,   \* blocks
  spFail,     \* jsonFail
  spDeltas    \* the deltas passed to sendDelta, in order

extractVars == << exObj, exEcho, exResult, exPc >>

splitVars == << spAll, spRest, spCarry, spFull, spBlocks, spFail, spDeltas >>

pureVars == << extractVars, splitVars >>

\* no extraction and no chunked read under observation
PureIdle ==
  /\ exObj = Obj(Absent, Absent, FALSE)
  /\ exEcho = ""
  /\ exResult = Absent
  /\ exPc = "idle"
  /\ spAll = "" /\ spRest = "" /\ spCarry = "" /\ spFull = ""
  /\ spBlocks = 0 /\ spFail = 0
  /\ spDeltas = << >>

vars == << confVars, streamVars, ringVars, authVars, reqVars, pureVars >>

\* the upstream accounts, the caller keys and the chat requests of the model
Accounts == { "A", "B" }

KeyA == "userkey-of-A"
KeyB == "userkey-of-B"
\* the key the device flow mints (base64url of 24 random bytes)
KeyNew == "userkey-minted"
Keys == { KeyA, KeyB, KeyNew }

AcqReqs == { "q1", "q2" }

\* a JSON object none of whose members is set
NoMembers ==
  [ status |-> "", user_code |-> "", verification_uri |-> "", user_key |-> "",
    error |-> "" ]

\* no credential store activity: the state of a fresh process and store
AuthIdle ==
  /\ devtx = << >>
  /\ msalBlob = [ a \in Accounts |-> << >> ]
  /\ accountRec = {}
  /\ userkey = [ k \in Keys |-> "" ]
  /\ memCache = [ a \in Accounts |-> 0 ]
  /\ provVer = [ a \in Accounts |-> 0 ]
  /\ startPc = "idle"
  /\ startResp = NoMembers
  /\ infoResolved = FALSE
  /\ bgPc = "none"
  /\ cbPc = "none"
  /\ bgAcct = ""
  /\ bgCur = NoMembers
  /\ polls = << >>
  /\ provState = "none"
  /\ completeStored = FALSE
  /\ acqPc = [ q \in AcqReqs |-> "idle" ]
  /\ acqAcct = [ q \in AcqReqs |-> "" ]
  /\ acqCached = [ q \in AcqReqs |-> << >> ]

\* the request under observation, and a second concurrent streamed request
Callers == { "r1", "r2" }

(***************************************************************************)
(* Event blocks the upstream can send (each is followed by a blank line).  *)
(***************************************************************************)
BlockPool ==
  { "data: " \o MsgPayload(t) : t \in Texts }
  \cup { "data: " \o ErrPayload,
         "data: " \o BadPayload,
         "data:",
         ": ping" }

\* what the upstream may leave unterminated when it closes the stream
TailPool == { "", "data: " \o MsgPayload("Hi there") }

(***************************************************************************)
(* Block parsing (src/server.js 642-664).                                  *)
(***************************************************************************)
HasBlock(c) == IndexOf(c, "\n\n") # -1

NextBlock(c) == Slice(c, 0, IndexOf(c, "\n\n"))

AfterBlock(c) == SliceFrom(c, IndexOf(c, "\n\n") + 2)

DataLines(block) ==
  LET lines == SplitLines(block)
      trimmed == [ i \in 1..Len(lines) |-> TrimEnd(lines[i]) ]
      IsData(l) == StartsWith(l, "data:")
      data == SelectSeq(trimmed, IsData)
  IN  [ i \in 1..Len(data) |-> TrimStart(SliceFrom(data[i], 5)) ]

Payload(block) == Trim(JoinLines(DataLines(block)))

\* "skip": no data line or an empty payload; "bad": JSON.parse throws;
\* "event": a parsed object
BlockKind(block) ==
  IF DataLines(block) = << >> \/ Payload(block) = "" THEN "skip"
  ELSE IF ~ParseJSON(Payload(block)).ok THEN "bad"
  ELSE "event"

(***************************************************************************)
(* The chunks of the response.                                             *)
(***************************************************************************)
\* the text of the advisory hint (src/server.js 685), abbreviated
HintText == "\n(hint: no parseable text from upstream)\n"

\* sendDelta(delta); advisory tells the call at line 685 from that at 676
DeltaChunk(delta, advisory) ==
  [ kind |-> "delta", content |-> delta, advisory |-> advisory ]

StopChunk == [ kind |-> "stop", content |-> "", advisory |-> FALSE ]

DoneMarker == [ kind |-> "done", content |-> "", advisory |-> FALSE ]

\* sendStop(): the stop chunk, the [DONE] marker, res.end()
sendStop(o) == o \o << StopChunk, DoneMarker >>

(***************************************************************************)
(* pushDebugEvent (src/server.js 147-154): LPUSH, LTRIM, EXPIRE, each      *)
(* awaited, inside try { } catch { }.                                      *)
(***************************************************************************)
\* Redis LTRIM key start stop, for indexes >= 0 (0-based, stop inclusive)
LTrim(list, start, stop) ==
  LET last == Min({stop + 1, Len(list)})
  IN  IF start + 1 > last THEN << >> ELSE SubSeq(list, start + 1, last)

\* the entry built at line 666; seq is the order of arrival at Redis
DebugEntry(p, payload) ==
  [ requestId |-> p, sample |-> Slice(payload, 0, 400), seq |-> 0 ]

\* await redis.lpush(key, JSON.stringify(obj))
Lpush(p) ==
  /\ pushPc[p] = "lpush"
  /\ debugList' = << [ pushObj[p] EXCEPT !.seq = pushed + 1 ] >> \o debugList
  /\ pushed' = pushed + 1
  /\ pushPc' = [ pushPc EXCEPT ![p] = "ltrim" ]
  /\ UNCHANGED << pushObj, confVars, pureVars, reqVars, authVars, streamVars >>

\* await redis.ltrim(key, 0, Math.max(0, DEBUG_EVENT_LIMIT - 1))
Ltrim(p) ==
  /\ pushPc[p] = "ltrim"
  /\ debugList' = LTrim(debugList, 0, Max({0, DEBUG_EVENT_LIMIT - 1}))
  /\ pushPc' = [ pushPc EXCEPT ![p] = "expire" ]
  /\ UNCHANGED << pushObj, pushed, confVars, pureVars, reqVars, authVars, streamVars >>

\* await redis.expire(key, 3600)
Expire(p) ==
  /\ pushPc[p] = "expire"
  /\ pushPc' = [ pushPc EXCEPT ![p] = "ret" ]
  /\ UNCHANGED << debugList, pushObj, pushed, confVars, pureVars, reqVars, authVars, streamVars >>

\* a Redis command of the call is rejected: catch {} ends the call
PushFail(p) ==
  /\ pushPc[p] \in { "lpush", "ltrim", "expire" }
  /\ pushPc' = [ pushPc EXCEPT ![p] = "ret" ]
  /\ UNCHANGED << debugList, pushObj, pushed, confVars, pureVars, reqVars, authVars, streamVars >>

(***************************************************************************)
(* The upstream and the caller of the request under observation.           *)
(***************************************************************************)
\* The handler sees the wire only when a read returns, so text is put on
\* the wire while the handler waits in reader.read().
UpstreamSend(b) ==
  /\ ~upEnded
  /\ pc = "read"
  /\ sent < MaxBlocks
  /\ Len(wire) <= MaxWire
  /\ wire' = wire \o b \o "\n\n"
  /\ sent' = sent + 1
  /\ UNCHANGED << upEnded, pc, carry, fullText, blocks, jsonFail, curPayload,
                  out, closed, disconnected, texts, confVars, pureVars, reqVars, authVars, ringVars >>

UpstreamClose(tail) ==
  /\ ~upEnded
  /\ pc = "read"
  /\ wire' = wire \o tail
  /\ upEnded' = TRUE
  /\ UNCHANGED << sent, pc, carry, fullText, blocks, jsonFail, curPayload,
                  out, closed, disconnected, texts, confVars, pureVars, reqVars, authVars, ringVars >>

\* the caller closes its connection; the handler registers no listener
ClientDisconnect ==
  /\ ~disconnected
  /\ pc # "done"
  /\ disconnected' = TRUE
  /\ UNCHANGED << wire, upEnded, sent, pc, carry, fullText, blocks, jsonFail,
                  curPayload, out, closed, texts, confVars, pureVars, reqVars, authVars, ringVars >>

(***************************************************************************)
(* The stream loop (src/server.js 633-689).                                *)
(***************************************************************************)
\* the lengths of the chunk a read can return
ChunkLens(w) == { k \in 1..Len(w) : Len(w) - k <= MaxHold }

\* await reader.read() yields the first k characters on the wire;
\* carry += dec.decode(value, { stream: true })
ReadChunk(k) ==
  /\ pc = "read"
  /\ k \in ChunkLens(wire)
  /\ carry' = carry \o Slice(wire, 0, k)
  /\ wire' = SliceFrom(wire, k)
  /\ pc' = "parse"
  /\ UNCHANGED << upEnded, sent, fullText, blocks, jsonFail, curPayload, out,
                  closed, disconnected, texts, confVars, pureVars, reqVars, authVars, ringVars >>

\* what is left in carry when the upstream ends is handled as a last block
ReadDoneFlush ==
  /\ pc = "read"
  /\ wire = ""
  /\ upEnded
  /\ IF carry # ""
     THEN /\ carry' = carry \o "\n\n"
          /\ pc' = "parse"
     ELSE /\ carry' = carry
          /\ pc' = "finish"
  /\ UNCHANGED << wire, upEnded, sent, fullText, blocks, jsonFail,
                  curPayload, out, closed, disconnected, texts, confVars, pureVars, reqVars, authVars,
                  ringVars >>

\* await reader.read() yields done: break
ReadDone ==
  /\ pc = "read"
  /\ wire = ""
  /\ upEnded
  /\ pc' = "finish"
  /\ UNCHANGED << wire, upEnded, sent, carry, fullText, blocks, jsonFail,
                  curPayload, out, closed, disconnected, texts, confVars, pureVars, reqVars, authVars,
                  ringVars >>

\* the exception of a read leaves the handler without the terminal sequence
ReadErrorUncaught ==
  /\ pc = "read"
  /\ pc' = "done"
  /\ closed' = TRUE
  /\ UNCHANGED << wire, upEnded, sent, carry, fullText, blocks, jsonFail,
                  curPayload, out, disconnected, texts, confVars, pureVars, reqVars, authVars, ringVars >>

\* await reader.read() throws: catch (e) { log }
ReadError ==
  /\ pc = "read"
  /\ pc' = "finish"
  /\ UNCHANGED << wire, upEnded, sent, carry, fullText, blocks, jsonFail,
                  curPayload, out, closed, disconnected, texts, confVars, pureVars, reqVars, authVars,
                  ringVars >>

\* idx == -1: break out of the inner loop and read again
ParseNoBlock ==
  /\ pc = "parse"
  /\ ~HasBlock(carry)
  /\ pc' = "read"
  /\ UNCHANGED << wire, upEnded, sent, carry, fullText, blocks, jsonFail,
                  curPayload, out, closed, disconnected, texts, confVars, pureVars, reqVars, authVars,
                  ringVars >>

\* a block without data line or with an empty payload: continue
ParseSkip ==
  /\ pc = "parse"
  /\ HasBlock(carry)
  /\ BlockKind(NextBlock(carry)) = "skip"
  /\ carry' = AfterBlock(carry)
  /\ blocks' = blocks + 1
  /\ UNCHANGED << wire, upEnded, sent, pc, fullText, jsonFail, curPayload, out,
                  closed, disconnected, texts, confVars, pureVars, reqVars, authVars, ringVars >>

\* JSON.parse throws and the failure is not counted
ParseBadUncounted ==
  /\ pc = "parse"
  /\ HasBlock(carry)
  /\ BlockKind(NextBlock(carry)) = "bad"
  /\ carry' = AfterBlock(carry)
  /\ blocks' = blocks + 1
  /\ UNCHANGED << wire, upEnded, sent, pc, fullText, jsonFail, curPayload, out,
                  closed, disconnected, texts, confVars, pureVars, reqVars, authVars, ringVars >>

\* JSON.parse throws: jsonFail++; continue
ParseBad ==
  /\ pc = "parse"
  /\ HasBlock(carry)
  /\ BlockKind(NextBlock(carry)) = "bad"
  /\ carry' = AfterBlock(carry)
  /\ blocks' = blocks + 1
  /\ jsonFail' = jsonFail + 1
  /\ UNCHANGED << wire, upEnded, sent, pc, fullText, curPayload, out, closed,
                  disconnected, texts, confVars, pureVars, reqVars, authVars, ringVars >>

\* a parsed payload: call pushDebugEvent and await it
ParseEvent ==
  /\ pc = "parse"
  /\ HasBlock(carry)
  /\ BlockKind(NextBlock(carry)) = "event"
  /\ carry' = AfterBlock(carry)
  /\ blocks' = blocks + 1
  /\ curPayload' = Payload(NextBlock(carry))
  /\ pc' = "push"
  /\ pushPc' = [ pushPc EXCEPT !["r1"] = "lpush" ]
  /\ pushObj' = [ pushObj EXCEPT !["r1"] =
                    DebugEntry("r1", Payload(NextBlock(carry))) ]
  /\ UNCHANGED << wire, upEnded, sent, fullText, jsonFail, out, closed,
                  disconnected, texts, debugList, pushed, confVars, pureVars, reqVars, authVars >>

\* typeof text === "string" && text.length > fullText.length
AdvancesIfDifferent(text, full) == text # Absent /\ text[1] # full

Advances(text, full) == text # Absent /\ Len(text[1]) > Len(full)

\* text.slice(fullText.length): the suffix beyond the watermark
DeltaWholeText(text, full) == text

Delta(text, full) == SliceFrom(text, Len(full))

\* the delta is appended to the chunk written before it instead of being
\* written as a chunk of its own
EmitDeltaMerged ==
  /\ pc = "push"
  /\ pushPc["r1"] = "ret"
  /\ pushPc' = [ pushPc EXCEPT !["r1"] = "idle" ]
  /\ LET text == extractBestTextFromEvent(ParseJSON(curPayload).obj, Prompt)
         n == Len(out)
     IN  /\ texts' = IF text = Absent THEN texts ELSE Append(texts, text[1])
         /\ IF Advances(text, fullText)
            THEN /\ fullText' = text[1]
                 /\ out' = IF n > 0
                           THEN [ out EXCEPT ![n].content = @ \o Delta(text[1], fullText) ]
                           ELSE Append(out, DeltaChunk(Delta(text[1], fullText), FALSE))
            ELSE UNCHANGED << fullText, out >>
  /\ pc' = "parse"
  /\ curPayload' = ""
  /\ UNCHANGED << wire, upEnded, sent, carry, blocks, jsonFail, closed,
                  disconnected, debugList, pushObj, pushed, confVars, pureVars, reqVars, authVars >>

\* pushDebugEvent has returned: extract the text, emit the delta
EmitDelta ==
  /\ pc = "push"
  /\ pushPc["r1"] = "ret"
  /\ pushPc' = [ pushPc EXCEPT !["r1"] = "idle" ]
  /\ LET text == extractBestTextFromEvent(ParseJSON(curPayload).obj, Prompt)
     IN  /\ texts' = IF text = Absent THEN texts ELSE Append(texts, text[1])
         /\ IF Advances(text, fullText)
            THEN /\ fullText' = text[1]
                 /\ out' = IF Delta(text[1], fullText) # ""
                           THEN Append(out, DeltaChunk(Delta(text[1], fullText), FALSE))
                           ELSE out
            ELSE UNCHANGED << fullText, out >>
  /\ pc' = "parse"
  /\ curPayload' = ""
  /\ UNCHANGED << wire, upEnded, sent, carry, blocks, jsonFail, closed,
                  disconnected, debugList, pushObj, pushed, confVars, pureVars, reqVars, authVars >>

\* the hint is written whenever advisory mode is on
FinishHintAlways ==
  /\ pc = "finish"
  /\ out' = sendStop(IF EMPTY_RESPONSE_HINT
                     THEN Append(out, DeltaChunk(HintText, TRUE))
                     ELSE out)
  /\ closed' = TRUE
  /\ pc' = "done"
  /\ UNCHANGED << wire, upEnded, sent, carry, fullText, blocks, jsonFail,
                  curPayload, disconnected, texts, confVars, pureVars, reqVars, authVars, ringVars >>

\* after the loop: the advisory hint if nothing was emitted, then sendStop()
Finish ==
  /\ pc = "finish"
  /\ out' = sendStop(IF fullText = "" /\ EMPTY_RESPONSE_HINT
                     THEN Append(out, DeltaChunk(HintText, TRUE))
                     ELSE out)
  /\ closed' = TRUE
  /\ pc' = "done"
  /\ UNCHANGED << wire, upEnded, sent, carry, fullText, blocks, jsonFail,
                  curPayload, disconnected, texts, confVars, pureVars, reqVars, authVars, ringVars >>

(***************************************************************************)
(* Specification of one streamed response.                                 *)
(***************************************************************************)
NoEntry == [ requestId |-> "", sample |-> "", seq |-> 0 ]

Init ==
  /\ EMPTY_RESPONSE_HINT \in BOOLEAN
  /\ DEBUG_EVENT_LIMIT = StreamLimit
  /\ wire = ""
  /\ upEnded = FALSE
  /\ sent = 0
  /\ pc = "read"
  /\ carry = ""
  /\ fullText = ""
  /\ blocks = 0
  /\ jsonFail = 0
  /\ curPayload = ""
  /\ out = << >>
  /\ closed = FALSE
  /\ disconnected = FALSE
  /\ texts = << >>
  /\ debugList = << >>
  /\ pushPc = [ p \in Callers |-> "idle" ]
  /\ pushObj = [ p \in Callers |-> NoEntry ]
  /\ pushed = 0
  /\ AuthIdle
  /\ ReqIdle
  /\ PureIdle

Next ==
  \/ \E b \in BlockPool : UpstreamSend(b)
  \/ \E tail \in TailPool : UpstreamClose(tail)
  \/ \E k \in ChunkLens(wire) : ReadChunk(k)
  \/ ReadDone
  \/ ReadError
  \/ ParseNoBlock
  \/ ParseSkip
  \/ ParseBad
  \/ ParseEvent
  \/ Lpush("r1")
  \/ Ltrim("r1")
  \/ Expire("r1")
  \/ EmitDelta
  \/ Finish

Spec == Init /\ [][Next]_vars

(***************************************************************************)
(* The same response with a caller that may close its connection.          *)
(***************************************************************************)
CancelNext == Next \/ ClientDisconnect

CancelSpec == Init /\ [][CancelNext]_vars

(***************************************************************************)
(* Properties of the streamed response.                                    *)
(***************************************************************************)
RECURSIVE Concat(_)
Concat(ss) == IF ss = << >> THEN "" ELSE ss[1] \o Concat(Tail(ss))

\* the deltas passed to sendDelta by the block loop, in order
IsTextDelta(c) == c.kind = "delta" /\ ~c.advisory

EmittedDeltas ==
  LET ds == SelectSeq(out, IsTextDelta)
  IN  [ i \in 1..Len(ds) |-> ds[i].content ]

IsPrefix(a, b) == Len(a) <= Len(b) /\ SubSeq(b, 1, Len(a)) = a

NonDecreasingLength(ts) == \A i \in 1..(Len(ts) - 1) : Len(ts[i]) <= Len(ts[i + 1])

PrefixChain(ts) == \A i \in 1..(Len(ts) - 1) : IsPrefix(ts[i], ts[i + 1])

\* C1 as stated: whenever the texts extracted so far are non-decreasing in
\* length, the concatenation of the emitted deltas is the last text.
C1_DeltasEqualLastText ==
  (texts # << >> /\ NonDecreasingLength(texts))
    => Concat(EmittedDeltas) = texts[Len(texts)]

\* C1 amended: whenever every extracted text extends the one before it,
\* the concatenation of the emitted deltas is the last text.
C1_DeltasEqualLastTextOfChain ==
  (texts # << >> /\ PrefixChain(texts))
    => Concat(EmittedDeltas) = texts[Len(texts)]

C1_Witness ==
  /\ pc = "done"
  /\ texts = << "Hi", "Hi there", "Hi there!" >>
  /\ EmittedDeltas = << "Hi", " there", "!" >>

Positions(kind) == { i \in 1..Len(out) : out[i].kind = kind }

\* C2: a response whose handler has ended holds exactly one stop chunk,
\* directly followed by exactly one [DONE] marker, as its last two writes,
\* and is closed, whatever the upstream did (a throwing read included);
\* before that nothing terminal is written.
C2_TerminalSequence ==
  /\ pc = "done" =>
       /\ closed
       /\ Len(out) >= 2
       /\ Positions("stop") = { Len(out) - 1 }
       /\ Positions("done") = { Len(out) }
  /\ pc # "done" =>
       /\ ~closed
       /\ Positions("stop") = {} /\ Positions("done") = {}

\* a stream cut by a throwing read after a delta was written
C2_Witness ==
  /\ pc = "done"
  /\ wire # ""
  /\ ~upEnded
  /\ Len(EmittedDeltas) >= 1

\* the text the handler extracts from the event it is processing
CurText == extractBestTextFromEvent(ParseJSON(curPayload).obj, Prompt)

SeenTexts == { texts[i] : i \in 1..Len(texts) }

\* C3: the step that processes an event whose text was extracted from an
\* earlier event of the stream writes no chunk and leaves fullText as it is.
C3_DuplicateEmitsNothing ==
  [][ ( /\ pc = "push" /\ pc' = "parse"
        /\ CurText # Absent
        /\ CurText[1] \in SeenTexts )
      => (out' = out /\ fullText' = fullText) ]_vars

\* the same text came twice, after a longer one, and one delta was written for it
C3_Witness ==
  /\ texts = << "Hi", "Hi there", "Hi" >>
  /\ EmittedDeltas = << "Hi", " there" >>

\* the block the handler takes next is a non-empty payload that JSON.parse rejects
NextIsMalformed ==
  /\ pc = "parse"
  /\ HasBlock(carry)
  /\ Payload(NextBlock(carry)) # ""
  /\ ~ParseJSON(Payload(NextBlock(carry))).ok

\* C4: taking a malformed block adds one to jsonFail, writes no chunk, starts
\* no pushDebugEvent call, leaves the list alone and keeps the handler in the
\* block loop; no other step changes jsonFail.
C4_MalformedBlockCounted ==
  [][ /\ (NextIsMalformed /\ blocks' # blocks) =>
           /\ jsonFail' = jsonFail + 1
           /\ out' = out
           /\ debugList' = debugList /\ pushPc' = pushPc
           /\ pc' = "parse" /\ closed' = closed
      /\ jsonFail' # jsonFail => (NextIsMalformed /\ blocks' = blocks + 1)
    ]_vars

\* a malformed block was counted and a later event still produced a delta
C4_Witness ==
  /\ jsonFail = 1
  /\ blocks = 2
  /\ texts = << "Hi" >>
  /\ debugList # << >> /\ Len(debugList) = 1
  /\ EmittedDeltas = << "Hi" >>
  /\ pc = "done"
  /\ sent = 2 /\ upEnded /\ wire = ""

\* C10: once the caller has disconnected the handler writes no chunk and
\* starts no read.
C10_NothingAfterDisconnect ==
  [][ disconnected => (out' = out /\ ~(pc # "read" /\ pc' = "read")) ]_vars

\* the positions of the advisory chunks in the response
AdvisoryPositions ==
  { i \in 1..Len(out) : out[i].kind = "delta" /\ out[i].advisory }

\* C14: a response that ends without any text delta while EMPTY_RESPONSE_HINT
\* is on holds exactly one advisory chunk, directly before the stop chunk; a
\* response with a text delta, or with the hint off, holds none; nothing
\* advisory is written before the end.
C14_OneHintIffEmpty ==
  /\ pc # "done" => AdvisoryPositions = {}
  /\ pc = "done" =>
       IF EmittedDeltas = << >> /\ EMPTY_RESPONSE_HINT
       THEN /\ AdvisoryPositions = { Len(out) - 2 }
            /\ out = << DeltaChunk(HintText, TRUE), StopChunk, DoneMarker >>
       ELSE AdvisoryPositions = {}

\* the upstream sent events without text and closed; the hint was written
C14_Witness ==
  /\ pc = "done"
  /\ EMPTY_RESPONSE_HINT
  /\ blocks = 2 /\ jsonFail = 0 /\ upEnded
  /\ out = << DeltaChunk(HintText, TRUE), StopChunk, DoneMarker >>

\* the deltas the events with the texts ts yield one by one, from watermark full
RECURSIVE DeltasInOrder(_, _)
DeltasInOrder(ts, full) ==
  IF ts = << >> THEN << >>
  ELSE IF Len(Head(ts)) > Len(full)
       THEN << SliceFrom(Head(ts), Len(full)) >> \o DeltasInOrder(Tail(ts), Head(ts))
       ELSE DeltasInOrder(Tail(ts), full)

\* C15: the delta chunks of a response are, in order, the deltas of the
\* events parsed so far, one chunk for each event that yields a delta; a
\* finished response with text is those chunks, the stop chunk and the end
\* marker, and nothing else.
C15_ChunksInParseOrder ==
  /\ EmittedDeltas = DeltasInOrder(texts, "")
  /\ (pc = "done" /\ fullText # "") =>
       out = [ i \in 1..Len(EmittedDeltas) |-> DeltaChunk(EmittedDeltas[i], FALSE) ]
               \o << StopChunk, DoneMarker >>

\* cumulative texts "Hi", "Hi there", "Hi there!" and the whole response
C15_Witness ==
  /\ pc = "done"
  /\ texts = << "Hi", "Hi there", "Hi there!" >>
  /\ out = << DeltaChunk("Hi", FALSE), DeltaChunk(" there", FALSE),
              DeltaChunk("!", FALSE), StopChunk, DoneMarker >>

\* C20: the length of fullText never decreases, and the step that processes
\* an event whose text is shorter than fullText or does not extend it writes
\* no chunk and leaves fullText as it is.
C20_WatermarkForwardOnly ==
  [][ /\ Len(fullText') >= Len(fullText)
      /\ ( /\ pc = "push" /\ pc' = "parse"
           /\ CurText # Absent
           /\ (Len(CurText[1]) < Len(fullText) \/ ~IsPrefix(fullText, CurText[1])) )
         => (out' = out /\ fullText' = fullText) ]_vars

(***************************************************************************)
(* The diagnostic list under concurrent streams: every caller runs         *)
(* pushDebugEvent for the events it parses (src/server.js 666).            *)
(***************************************************************************)
\* a stream has parsed an event and calls pushDebugEvent
CallPush(p, payload) ==
  /\ pushPc[p] = "idle"
  /\ Cardinality({ q \in Callers : pushPc[q] # "idle" }) + pushed < MaxPush
  /\ pushPc' = [ pushPc EXCEPT ![p] = "lpush" ]
  /\ pushObj' = [ pushObj EXCEPT ![p] = DebugEntry(p, payload) ]
  /\ UNCHANGED << debugList, pushed, confVars, pureVars, reqVars, authVars, streamVars >>

\* pushDebugEvent returns to the stream
ReturnPush(p) ==
  /\ pushPc[p] = "ret"
  /\ pushPc' = [ pushPc EXCEPT ![p] = "idle" ]
  /\ UNCHANGED << debugList, pushObj, pushed, confVars, pureVars, reqVars, authVars, streamVars >>

\* GET /debug/last-events: redis.lrange(key, 0, Math.max(0, DEBUG_EVENT_LIMIT - 1))
LastEvents == LTrim(debugList, 0, Max({0, DEBUG_EVENT_LIMIT - 1}))

\* capacities below 1 act as capacity 1: Math.max(0, DEBUG_EVENT_LIMIT - 1)
Capacities == 1..MaxCapacity

RingInit ==
  /\ EMPTY_RESPONSE_HINT = TRUE
  /\ DEBUG_EVENT_LIMIT \in Capacities
  /\ wire = "" /\ upEnded = FALSE /\ sent = 0
  /\ pc = "read" /\ carry = "" /\ fullText = "" /\ blocks = 0 /\ jsonFail = 0
  /\ curPayload = "" /\ out = << >> /\ closed = FALSE /\ disconnected = FALSE
  /\ texts = << >>
  /\ debugList = << >>
  /\ pushPc = [ p \in Callers |-> "idle" ]
  /\ pushObj = [ p \in Callers |-> NoEntry ]
  /\ pushed = 0
  /\ AuthIdle
  /\ ReqIdle
  /\ PureIdle

RingNext ==
  \E p \in Callers :
    \/ \E payload \in { MsgPayload("Hi"), ErrPayload } : CallPush(p, payload)
    \/ Lpush(p)
    \/ Ltrim(p)
    \/ Expire(p)
    \/ PushFail(p)
    \/ ReturnPush(p)

RingSpec == RingInit /\ [][RingNext]_vars

\* C5: the list never holds more than DEBUG_EVENT_LIMIT entries, and what it
\* holds are the most recent pushes, newest first (only the oldest are evicted).
C5_RingWithinCapacity ==
  /\ Len(debugList) <= DEBUG_EVENT_LIMIT
  /\ \A i \in 1..(Len(debugList) - 1) : debugList[i].seq = debugList[i + 1].seq + 1

(***************************************************************************)
(* Device-code onboarding (src/server.js 451-512).  A step of a handler    *)
(* is the code it runs when an awaited reply arrives, up to and including  *)
(* the Redis command it sends next: the store executes the commands of     *)
(* the single connection in the order they are sent.                       *)
(***************************************************************************)
\* the deviceInfo object built by deviceCodeCallback
PendingRec ==
  [ NoMembers EXCEPT !.status = "pending", !.user_code = "CODE",
                     !.verification_uri = "https://microsoft.com/devicelogin" ]

\* redisGetJson(`devtx:${txId}`) || { txId }
ReadTx == IF devtx = << >> THEN NoMembers ELSE devtx[1]

\* msal.getTokenCache().serialize()
Serialize(cache) == << cache >>

\* the handler creates infoPromise and starts the detached continuation,
\* which calls msal.acquireTokenByDeviceCode
StartDevice ==
  /\ startPc = "idle"
  /\ startPc' = "await_info"
  /\ bgPc' = "initiate"
  /\ UNCHANGED << startResp, infoResolved, cbPc, bgAcct, bgCur, storeVars,
                  msalVars, txHistory, acqVars, confVars, pureVars, reqVars, streamVars, ringVars >>

\* the provider issues a user code: deviceCodeCallback stores the pending record
ProviderCode ==
  /\ bgPc = "initiate"
  /\ bgPc' = "polling"
  /\ cbPc' = "set"
  /\ devtx' = << PendingRec >>
  /\ provState' = "code"
  /\ UNCHANGED << startPc, startResp, infoResolved, bgAcct, bgCur, msalBlob,
                  accountRec, userkey, msalVars, polls, completeStored, acqVars,
                  confVars, pureVars, reqVars, streamVars, ringVars >>

\* deviceCodeCallback after its redisSetJson: infoResolve(deviceInfo)
CallbackResolve ==
  /\ cbPc = "set"
  /\ cbPc' = "done"
  /\ infoResolved' = TRUE
  /\ UNCHANGED << startPc, startResp, bgPc, bgAcct, bgCur, storeVars, msalVars,
                  txHistory, acqVars, confVars, pureVars, reqVars, streamVars, ringVars >>

\* const info = await infoPromise; res.json(info)
Respond ==
  /\ startPc = "await_info"
  /\ infoResolved
  /\ startResp' = PendingRec
  /\ startPc' = "responded"
  /\ UNCHANGED << infoResolved, bgPc, cbPc, bgAcct, bgCur, storeVars, msalVars,
                  txHistory, acqVars, confVars, pureVars, reqVars, streamVars, ringVars >>

\* the initiation fails before a user code exists: catch, read the record back
ProviderInitFail ==
  /\ bgPc = "initiate"
  /\ bgPc' = "catch_set"
  /\ bgCur' = ReadTx
  /\ provState' = "failed"
  /\ UNCHANGED << startPc, startResp, infoResolved, cbPc, bgAcct, storeVars,
                  msalVars, polls, completeStored, acqVars, confVars, pureVars, reqVars,
                  streamVars, ringVars >>

\* the long poll fails (code expired, sign-in declined): catch
ProviderPollFail ==
  /\ bgPc = "polling"
  /\ bgPc' = "catch_set"
  /\ bgCur' = ReadTx
  /\ provState' = "failed"
  /\ UNCHANGED << startPc, startResp, infoResolved, cbPc, bgAcct, storeVars,
                  msalVars, polls, completeStored, acqVars, confVars, pureVars, reqVars,
                  streamVars, ringVars >>

\* the user, who got the code from the response, signs in as account a: MSAL
\* caches the new tokens; saveMsalCache(account.homeAccountId, serialize())
ProviderSuccess(a) ==
  /\ bgPc = "polling"
  /\ startPc = "responded"
  /\ provVer[a] < MaxVer
  /\ provVer' = [ provVer EXCEPT ![a] = @ + 1 ]
  /\ memCache' = [ memCache EXCEPT ![a] = provVer[a] + 1 ]
  /\ msalBlob' = [ msalBlob EXCEPT ![a] = Serialize(memCache') ]
  /\ bgAcct' = a
  /\ bgPc' = "set_account"
  /\ provState' = "ok"
  /\ UNCHANGED << startPc, startResp, infoResolved, cbPc, bgCur, devtx,
                  accountRec, userkey, polls, completeStored, acqVars, confVars, pureVars, reqVars,
                  streamVars, ringVars >>

\* the result carries no account: throw new Error("No account ..."), catch
ProviderSuccessNoAccount ==
  /\ bgPc = "polling"
  /\ startPc = "responded"
  /\ bgPc' = "catch_set"
  /\ bgCur' = ReadTx
  /\ provState' = "failed"
  /\ UNCHANGED << startPc, startResp, infoResolved, cbPc, bgAcct, storeVars,
                  msalVars, polls, completeStored, acqVars, confVars, pureVars, reqVars,
                  streamVars, ringVars >>

\* await redisSetJson(`account:${account.homeAccountId}`, account)
SetAccount ==
  /\ bgPc = "set_account"
  /\ accountRec' = accountRec \cup { bgAcct }
  /\ bgPc' = "set_userkey"
  /\ UNCHANGED << startPc, startResp, infoResolved, cbPc, bgAcct, bgCur, devtx,
                  msalBlob, userkey, msalVars, txHistory, acqVars, confVars, pureVars, reqVars,
                  streamVars, ringVars >>

\* the userkey: entry is not written
SetUserKeyUnbound ==
  /\ bgPc = "set_userkey"
  /\ bgPc' = "get_tx"
  /\ UNCHANGED << startPc, startResp, infoResolved, cbPc, bgAcct, bgCur, devtx,
                  msalBlob, accountRec, userkey, msalVars, txHistory, acqVars,
                  confVars, pureVars, reqVars, streamVars, ringVars >>

\* const userKey = base64url(crypto.randomBytes(24)); redis.set(`userkey:...`)
SetUserKey ==
  /\ bgPc = "set_userkey"
  /\ userkey' = [ userkey EXCEPT ![KeyNew] = bgAcct ]
  /\ bgPc' = "get_tx"
  /\ UNCHANGED << startPc, startResp, infoResolved, cbPc, bgAcct, bgCur, devtx,
                  msalBlob, accountRec, msalVars, txHistory, acqVars, confVars, pureVars, reqVars,
                  streamVars, ringVars >>

\* const done = (await redisGetJson(`devtx:${txId}`)) || { txId }
GetTx ==
  /\ bgPc = "get_tx"
  /\ bgCur' = ReadTx
  /\ bgPc' = "set_complete"
  /\ UNCHANGED << startPc, startResp, infoResolved, cbPc, bgAcct, storeVars,
                  msalVars, txHistory, acqVars, confVars, pureVars, reqVars, streamVars, ringVars >>

\* the log call after the write of the complete record throws inside the
\* try block, so the catch runs over a complete record
SetCompleteThenThrow ==
  /\ bgPc = "set_complete"
  /\ devtx' = << [ bgCur EXCEPT !.status = "complete", !.user_key = KeyNew ] >>
  /\ completeStored' = TRUE
  /\ bgCur' = [ bgCur EXCEPT !.status = "complete", !.user_key = KeyNew ]
  /\ bgPc' = "catch_set"
  /\ UNCHANGED << startPc, startResp, infoResolved, cbPc, bgAcct,
                  msalBlob, accountRec, userkey, msalVars, polls, provState,
                  acqVars, confVars, pureVars, reqVars, streamVars, ringVars >>

\* the complete record is written without the user key
SetCompleteNoKey ==
  /\ bgPc = "set_complete"
  /\ devtx' = << [ bgCur EXCEPT !.status = "complete" ] >>
  /\ completeStored' = TRUE
  /\ bgPc' = "end"
  /\ UNCHANGED << startPc, startResp, infoResolved, cbPc, bgAcct, bgCur,
                  msalBlob, accountRec, userkey, msalVars, polls, provState,
                  acqVars, confVars, pureVars, reqVars, streamVars, ringVars >>

\* done.status = "complete"; done.user_key = userKey; redisSetJson(devtx, done)
SetComplete ==
  /\ bgPc = "set_complete"
  /\ devtx' = << [ bgCur EXCEPT !.status = "complete", !.user_key = KeyNew ] >>
  /\ completeStored' = TRUE
  /\ bgPc' = "end"
  /\ UNCHANGED << startPc, startResp, infoResolved, cbPc, bgAcct, bgCur,
                  msalBlob, accountRec, userkey, msalVars, polls, provState,
                  acqVars, confVars, pureVars, reqVars, streamVars, ringVars >>

\* cur.status = "error"; cur.error = String(...); redisSetJson(devtx, cur)
CatchSet ==
  /\ bgPc = "catch_set"
  /\ devtx' = << [ bgCur EXCEPT !.status = "error", !.error = "msg" ] >>
  /\ bgPc' = "end"
  /\ UNCHANGED << startPc, startResp, infoResolved, cbPc, bgAcct, bgCur,
                  msalBlob, accountRec, userkey, msalVars, txHistory, acqVars,
                  confVars, pureVars, reqVars, streamVars, ringVars >>

\* the status route deletes a terminal record once it has been read
PollConsuming ==
  /\ startPc = "responded"
  /\ Len(polls) < MaxPolls
  /\ polls' = Append(polls,
                [ http |-> IF devtx = << >> THEN 404 ELSE 200,
                  body |-> ReadTx,
                  provState |-> provState,
                  completeStored |-> completeStored ])
  /\ devtx' = IF ReadTx.status \in {"complete", "error"} THEN << >> ELSE devtx
  /\ UNCHANGED << msalBlob, accountRec, userkey, msalVars, deviceVars,
                  provState, completeStored, acqVars, confVars, pureVars, reqVars,
                  streamVars, ringVars >>

\* GET /auth/device/status/:txId by the caller, who knows txId from the response
Poll ==
  /\ startPc = "responded"
  /\ Len(polls) < MaxPolls
  /\ polls' = Append(polls,
                [ http |-> IF devtx = << >> THEN 404 ELSE 200,
                  body |-> ReadTx,
                  provState |-> provState,
                  completeStored |-> completeStored ])
  /\ UNCHANGED << storeVars, msalVars, deviceVars, provState, completeStored,
                  acqVars, confVars, pureVars, reqVars, streamVars, ringVars >>

\* the record's time to live runs out (EX expiresIn / 86400 / 3600)
ExpireTx ==
  /\ devtx # << >>
  /\ devtx' = << >>
  /\ UNCHANGED << msalBlob, accountRec, userkey, msalVars, deviceVars,
                  txHistory, acqVars, confVars, pureVars, reqVars, streamVars, ringVars >>

(***************************************************************************)
(* acquireAccessToken (src/server.js 201-209).  The process has one MSAL   *)
(* client, so one in-memory token cache (memCache) for every account.      *)
(***************************************************************************)
\* no token material for any account
EmptyCache == [ a \in Accounts |-> 0 ]

\* msal.getTokenCache().deserialize(cached): the snapshot becomes the cache
Deserialize(cached, cache) == IF cached = << >> THEN cache ELSE cached[1]

\* a call starts and sends loadMsalCache's GET
StartAcquire(q, a) ==
  /\ acqPc[q] = "idle"
  /\ acqPc' = [ acqPc EXCEPT ![q] = "loaded" ]
  /\ acqAcct' = [ acqAcct EXCEPT ![q] = a ]
  /\ acqCached' = [ acqCached EXCEPT ![q] = msalBlob[a] ]
  /\ UNCHANGED << storeVars, msalVars, deviceVars, txHistory, confVars, pureVars, reqVars,
                  streamVars, ringVars >>

\* the GET's reply: deserialize; acquireTokenSilent finds no token for the account
AcqNoToken(q) ==
  /\ acqPc[q] = "loaded"
  /\ memCache' = Deserialize(acqCached[q], memCache)
  /\ memCache'[acqAcct[q]] = 0
  /\ acqPc' = [ acqPc EXCEPT ![q] = "failed" ]
  /\ UNCHANGED << storeVars, provVer, deviceVars, txHistory, acqAcct, acqCached,
                  confVars, pureVars, reqVars, streamVars, ringVars >>

\* the GET's reply: deserialize; the cached access token is still valid, so
\* acquireTokenSilent answers from the cache and saveMsalCache sends its SET
AcqCacheHit(q) ==
  /\ acqPc[q] = "loaded"
  /\ memCache' = Deserialize(acqCached[q], memCache)
  /\ memCache'[acqAcct[q]] # 0
  /\ msalBlob' = [ msalBlob EXCEPT ![acqAcct[q]] = Serialize(memCache') ]
  /\ acqPc' = [ acqPc EXCEPT ![q] = "saved" ]
  /\ UNCHANGED << devtx, accountRec, userkey, provVer, deviceVars, txHistory,
                  acqAcct, acqCached, confVars, pureVars, reqVars, streamVars, ringVars >>

\* the GET's reply: deserialize; the access token is stale, so
\* acquireTokenSilent sends a refresh to the provider and the call awaits it
AcqNeedRefresh(q) ==
  /\ acqPc[q] = "loaded"
  /\ memCache' = Deserialize(acqCached[q], memCache)
  /\ memCache'[acqAcct[q]] # 0
  /\ acqPc' = [ acqPc EXCEPT ![q] = "silent" ]
  /\ UNCHANGED << storeVars, provVer, deviceVars, txHistory, acqAcct, acqCached,
                  confVars, pureVars, reqVars, streamVars, ringVars >>

\* the refresh succeeds: MSAL caches the new tokens, saveMsalCache sends its SET
AcqRefreshed(q) ==
  /\ acqPc[q] = "silent"
  /\ provVer[acqAcct[q]] < MaxVer
  /\ provVer' = [ provVer EXCEPT ![acqAcct[q]] = @ + 1 ]
  /\ memCache' = [ memCache EXCEPT ![acqAcct[q]] = provVer[acqAcct[q]] + 1 ]
  /\ msalBlob' = [ msalBlob EXCEPT ![acqAcct[q]] = Serialize(memCache') ]
  /\ acqPc' = [ acqPc EXCEPT ![q] = "saved" ]
  /\ UNCHANGED << devtx, accountRec, userkey, deviceVars, txHistory, acqAcct,
                  acqCached, confVars, pureVars, reqVars, streamVars, ringVars >>

\* the refresh fails: acquireTokenSilent throws, nothing is saved
AcqRefreshFailed(q) ==
  /\ acqPc[q] = "silent"
  /\ acqPc' = [ acqPc EXCEPT ![q] = "failed" ]
  /\ UNCHANGED << storeVars, msalVars, deviceVars, txHistory, acqAcct,
                  acqCached, confVars, pureVars, reqVars, streamVars, ringVars >>

\* the SET's reply: return result.accessToken
AcqReturn(q) ==
  /\ acqPc[q] = "saved"
  /\ acqPc' = [ acqPc EXCEPT ![q] = "done" ]
  /\ UNCHANGED << storeVars, msalVars, deviceVars, txHistory, acqAcct,
                  acqCached, confVars, pureVars, reqVars, streamVars, ringVars >>

\* the blob's time to live runs out (EX ttlSeconds, seven days); the account
\* record and the user key outlive it
ExpireBlob(a) ==
  /\ msalBlob[a] # << >>
  /\ msalBlob' = [ msalBlob EXCEPT ![a] = << >> ]
  /\ UNCHANGED << devtx, accountRec, userkey, msalVars, deviceVars, txHistory,
                  acqVars, confVars, pureVars, reqVars, streamVars, ringVars >>

(***************************************************************************)
(* Specifications of the credential endpoints.                             *)
(***************************************************************************)
\* the blob saved for an account that signed in on its own
CleanBlob(a) == Serialize([ EmptyCache EXCEPT ![a] = 1 ])

\* a freshly started process; the accounts in P were onboarded earlier
AuthInit ==
  /\ EMPTY_RESPONSE_HINT = TRUE
  /\ DEBUG_EVENT_LIMIT = StreamLimit
  /\ wire = "" /\ upEnded = FALSE /\ sent = 0
  /\ pc = "read" /\ carry = "" /\ fullText = "" /\ blocks = 0 /\ jsonFail = 0
  /\ curPayload = "" /\ out = << >> /\ closed = FALSE /\ disconnected = FALSE
  /\ texts = << >>
  /\ debugList = << >>
  /\ pushPc = [ p \in Callers |-> "idle" ]
  /\ pushObj = [ p \in Callers |-> NoEntry ]
  /\ pushed = 0
  /\ \E P \in SUBSET Accounts :
       /\ msalBlob = [ a \in Accounts |-> IF a \in P THEN CleanBlob(a) ELSE << >> ]
       /\ accountRec = P
       /\ userkey = [ k \in Keys |-> IF k = KeyA /\ "A" \in P THEN "A"
                                     ELSE IF k = KeyB /\ "B" \in P THEN "B"
                                     ELSE "" ]
       /\ provVer = [ a \in Accounts |-> IF a \in P THEN 1 ELSE 0 ]
  /\ devtx = << >>
  /\ memCache = EmptyCache
  /\ startPc = "idle"
  /\ startResp = NoMembers
  /\ infoResolved = FALSE
  /\ bgPc = "none"
  /\ cbPc = "none"
  /\ bgAcct = ""
  /\ bgCur = NoMembers
  /\ polls = << >>
  /\ provState = "none"
  /\ completeStored = FALSE
  /\ acqPc = [ q \in AcqReqs |-> "idle" ]
  /\ acqAcct = [ q \in AcqReqs |-> "" ]
  /\ acqCached = [ q \in AcqReqs |-> << >> ]
  /\ ReqIdle
  /\ PureIdle

\* the steps the server itself takes in a device transaction
DeviceHandlerStep ==
  \/ StartDevice
  \/ CallbackResolve
  \/ Respond
  \/ SetAccount
  \/ SetUserKey
  \/ GetTx
  \/ SetComplete
  \/ CatchSet

\* the provider's answer to the initiation
ProviderInitiation == ProviderCode \/ ProviderInitFail

\* the provider's answer to the long poll
ProviderOutcome ==
  \/ \E a \in Accounts : ProviderSuccess(a)
  \/ ProviderSuccessNoAccount
  \/ ProviderPollFail

DeviceNext ==
  \/ DeviceHandlerStep
  \/ ProviderInitiation
  \/ ProviderOutcome
  \/ Poll
  \/ ExpireTx

DeviceSpec == AuthInit /\ [][DeviceNext]_vars

\* the event loop runs every continuation whose reply has arrived, and the
\* provider answers the initiation one way or the other
DeviceFairSpec ==
  /\ DeviceSpec
  /\ WF_vars(DeviceHandlerStep)
  /\ WF_vars(ProviderInitiation)

TokenNext ==
  \/ DeviceHandlerStep
  \/ ProviderInitiation
  \/ ProviderOutcome
  \/ \E q \in AcqReqs, a \in accountRec : StartAcquire(q, a)
  \/ \E q \in AcqReqs : AcqNoToken(q)
  \/ \E q \in AcqReqs : AcqCacheHit(q)
  \/ \E q \in AcqReqs : AcqNeedRefresh(q)
  \/ \E q \in AcqReqs : AcqRefreshed(q)
  \/ \E q \in AcqReqs : AcqRefreshFailed(q)
  \/ \E q \in AcqReqs : AcqReturn(q)
  \/ \E a \in Accounts : ExpireBlob(a)

TokenSpec == AuthInit /\ [][TokenNext]_vars

(***************************************************************************)
(* Properties of the credential endpoints.                                 *)
(***************************************************************************)
\* C6: POST /auth/device/start always eventually responds to the caller with
\* the pending transaction state, whatever the outcome of the provider's
\* device-code initiation, a failure before any user code included.
C6_StartEventuallyResponds ==
  (startPc = "await_info")
    ~> (startPc = "responded" /\ startResp.status = "pending")

\* the body of a poll carries the pending state with the code and the URL
PollIsPending(p) ==
  /\ p.http = 200
  /\ p.body.status = "pending"
  /\ p.body.user_code # ""
  /\ p.body.verification_uri # ""

\* the body of a poll carries the complete state with a user key
PollIsComplete(p) ==
  /\ p.http = 200
  /\ p.body.status = "complete"
  /\ p.body.user_key # ""

\* C7 as stated: a poll made after the pending record was written and before
\* the provider completes returns "pending" with user_code and
\* verification_uri; every poll made after the provider completed
\* successfully, the record not having expired, returns "complete" with a
\* user_key.
C7_PollFollowsProvider ==
  \A i \in 1..Len(polls) :
    /\ (polls[i].provState = "code" /\ polls[i].http # 404)
         => PollIsPending(polls[i])
    /\ (polls[i].provState = "ok" /\ polls[i].http # 404)
         => PollIsComplete(polls[i])

\* C7 amended: a poll made after the pending record was written and before
\* the provider completes returns "pending" with user_code and
\* verification_uri; every poll made after the continuation has stored the
\* complete record, the record not having expired, returns "complete" with a
\* user_key; a poll made after the provider completed successfully and before
\* that store still returns "pending".
C7_PollFollowsStoredRecord ==
  \A i \in 1..Len(polls) :
    /\ (polls[i].provState = "code" /\ polls[i].http # 404)
         => PollIsPending(polls[i])
    /\ (polls[i].completeStored /\ polls[i].http # 404)
         => PollIsComplete(polls[i])
    /\ (polls[i].provState = "ok" /\ ~polls[i].completeStored
          /\ polls[i].http # 404)
         => PollIsPending(polls[i])

\* a poll while pending and a later poll that finds the complete record
C7_Witness ==
  /\ Len(polls) = 2
  /\ polls[1].provState = "code" /\ PollIsPending(polls[1])
  /\ polls[2].completeStored /\ PollIsComplete(polls[2])

\* the calls that are between their load and their save
InCycle(a) == { q \in AcqReqs : acqAcct[q] = a /\ acqPc[q] \in {"loaded", "silent"} }

\* C8: the load-cache / silent-refresh / save-cache cycles of two
\* acquireAccessToken calls for the same account never interleave.
C8_CyclesNeverOverlap ==
  \A a \in Accounts : Cardinality(InCycle(a)) <= 1

\* C9: the material persisted under msal:A depends only on A's own material
\* and never contains the credential material of another account B.
C9_BlobHoldsOwnMaterialOnly ==
  \A a \in Accounts :
    msalBlob[a] # << >> =>
      \A b \in Accounts \ {a} : msalBlob[a][1][b] = 0

\* the poll was answered with a complete or error record
PollIsTerminal(p) == p.http = 200 /\ p.body.status \in {"complete", "error"}

\* C16: a poll changes no stored state; once a poll has returned a complete
\* or error record, every later poll returns the same payload or, the
\* record having expired, not-found, and after a not-found only not-found.
C16_TerminalPollsRepeat ==
  [][ /\ polls' # polls => storeVars' = storeVars
      /\ \A i \in 1..Len(polls') : \A j \in (i + 1)..Len(polls') :
           PollIsTerminal(polls'[i]) =>
             /\ polls'[j].http = 404 \/ polls'[j].body = polls'[i].body
             /\ polls'[j].http = 404 =>
                  \A k \in (j + 1)..Len(polls') : polls'[k].http = 404
    ]_vars

\* the complete record read twice, then not found after its expiry
C16_Witness ==
  /\ Len(polls) = 3
  /\ PollIsComplete(polls[1])
  /\ polls[2].http = 200 /\ polls[2].body = polls[1].body
  /\ polls[3].http = 404

\* C13: a call that found no blob for its account in the store neither writes
\* a blob nor returns a token.
C13_NoMaterialNoToken ==
  \A q \in AcqReqs :
    (acqPc[q] # "idle" /\ acqCached[q] = << >>) => acqPc[q] \notin {"saved", "done"}

(***************************************************************************)
(* POST /v1/chat/completions up to its first write (src/server.js          *)
(* 548-597): gateway token, account resolution, token, conversation, and   *)
(* the opening of the upstream.  The request uses call "q1" of             *)
(* acquireAccessToken.                                                     *)
(***************************************************************************)
\* userKey.length > 10
KeyThreshold == 10

\* the X-User-Key headers a caller sends
HeaderPool ==
  { NoHeader } \cup
  { [ present |-> TRUE, value |-> v ] :
      v \in { "short", "0123456789", KeyA, KeyB, KeyNew } }

\* the session cookies a caller sends: none, or a session holding an account
SessionPool == { "" } \cup Accounts

getUserContext(h, s) ==
  IF h.present /\ Len(h.value) > KeyThreshold THEN "userkey"
  ELSE IF s # "" THEN "session"
  ELSE "none"

\* redis.get(`userkey:${userKey}`), "" for null
LookupKey(k) == IF k \in Keys THEN userkey[k] ELSE ""

\* redisGetJson(`account:${home}`), "" for null
LookupAccount(home) == IF home \in accountRec THEN home ELSE ""

\* getAccountByUserKey, when both replies arrive
getAccountByUserKey(k) ==
  IF LookupKey(k) = "" THEN "" ELSE LookupAccount(LookupKey(k))

\* res.status(n).json({ error: ... })
Reply(n, e) == Append(chatResp, [ status |-> n, err |-> e ])

\* acquireAccessToken({ account }) is entered and sends loadMsalCache's GET
CallAcquire(a) ==
  /\ acqPc["q1"] = "idle"
  /\ acqPc' = [ acqPc EXCEPT !["q1"] = "loaded" ]
  /\ acqAcct' = [ acqAcct EXCEPT !["q1"] = a ]
  /\ acqCached' = [ acqCached EXCEPT !["q1"] = msalBlob[a] ]

\* requireGatewayToken answers 401
ChatBadToken(h, s, st) ==
  /\ chatPc = "idle"
  /\ reqKey' = h /\ reqSession' = s /\ reqStream' = st
  /\ chatResp' = Reply(401, "gateway")
  /\ chatPc' = "done"
  /\ UNCHANGED << chatCtx, chatHome, chatAccount, chatLookup, headersWritten,
                  tokenAsked, upstreamCalled, chatFailure, adminLog, confVars, pureVars,
                  streamVars, ringVars, authVars >>

\* getUserContext returns null
ChatNoContext(h, s, st) ==
  /\ chatPc = "idle"
  /\ getUserContext(h, s) = "none"
  /\ reqKey' = h /\ reqSession' = s /\ reqStream' = st
  /\ chatResp' = Reply(401, "nouser")
  /\ chatPc' = "done"
  /\ UNCHANGED << chatCtx, chatHome, chatAccount, chatLookup, headersWritten,
                  tokenAsked, upstreamCalled, chatFailure, adminLog, confVars, pureVars,
                  streamVars, ringVars, authVars >>

\* ctx.type === "session": account = ctx.account, then acquireAccessToken
ChatSession(h, s, st) ==
  /\ chatPc = "idle"
  /\ getUserContext(h, s) = "session"
  /\ reqKey' = h /\ reqSession' = s /\ reqStream' = st
  /\ chatCtx' = "session"
  /\ chatAccount' = s
  /\ tokenAsked' = TRUE
  /\ CallAcquire(s)
  /\ chatPc' = "acquire"
  /\ UNCHANGED << chatHome, chatLookup, chatResp, headersWritten,
                  upstreamCalled, chatFailure, adminLog, confVars, pureVars, streamVars,
                  ringVars, storeVars, msalVars, deviceVars, txHistory >>

\* ctx.type === "userkey": getAccountByUserKey sends its first GET
ChatUserKey(h, s, st) ==
  /\ chatPc = "idle"
  /\ getUserContext(h, s) = "userkey"
  /\ reqKey' = h /\ reqSession' = s /\ reqStream' = st
  /\ chatCtx' = "userkey"
  /\ chatHome' = LookupKey(h.value)
  /\ chatPc' = "lookup_key"
  /\ UNCHANGED << chatAccount, chatLookup, chatResp, headersWritten,
                  tokenAsked, upstreamCalled, chatFailure, adminLog, confVars, pureVars,
                  streamVars, ringVars, authVars >>

\* if (!home) return null; the handler answers 401
ChatKeyMiss ==
  /\ chatPc = "lookup_key"
  /\ chatHome = ""
  /\ chatLookup' = "notfound"
  /\ chatResp' = Reply(401, "invalidkey")
  /\ chatPc' = "done"
  /\ UNCHANGED << reqKey, reqSession, reqStream, chatCtx, chatHome,
                  chatAccount, headersWritten, tokenAsked, upstreamCalled,
                  chatFailure, adminLog, confVars, pureVars, streamVars, ringVars,
                  authVars >>

\* home found: redisGetJson(`account:${home}`) is sent
ChatKeyHit ==
  /\ chatPc = "lookup_key"
  /\ chatHome # ""
  /\ chatAccount' = LookupAccount(chatHome)
  /\ chatPc' = "lookup_account"
  /\ UNCHANGED << reqKey, reqSession, reqStream, chatCtx, chatHome, chatLookup,
                  chatResp, headersWritten, tokenAsked, upstreamCalled,
                  chatFailure, adminLog, confVars, pureVars, streamVars, ringVars,
                  authVars >>

\* the account record arrives: 401 if there is none, else acquireAccessToken
ChatAccountReply ==
  /\ chatPc = "lookup_account"
  /\ IF chatAccount = ""
     THEN /\ chatLookup' = "notfound"
          /\ chatResp' = Reply(401, "invalidkey")
          /\ chatPc' = "done"
          /\ UNCHANGED << tokenAsked, acqVars >>
     ELSE /\ chatLookup' = "found"
          /\ tokenAsked' = TRUE
          /\ CallAcquire(chatAccount)
          /\ chatPc' = "acquire"
          /\ UNCHANGED chatResp
  /\ UNCHANGED << reqKey, reqSession, reqStream, chatCtx, chatHome,
                  chatAccount, headersWritten, upstreamCalled, chatFailure,
                  adminLog, confVars, pureVars, streamVars, ringVars, storeVars, msalVars,
                  deviceVars, txHistory >>

\* catch (err) { next(err) } and the global error handler (698-710): a 500
\* body unless the headers were already sent
Fail(kind) ==
  /\ chatFailure' = kind
  /\ chatResp' = IF headersWritten THEN chatResp ELSE Reply(500, "error")
  /\ chatPc' = "done"

\* redis.get or redisGetJson of getAccountByUserKey rejects
ChatLookupFail ==
  /\ chatPc \in {"lookup_key", "lookup_account"}
  /\ Fail("lookup")
  /\ chatLookup' = "failed"
  /\ UNCHANGED << reqKey, reqSession, reqStream, chatCtx, chatHome,
                  chatAccount, headersWritten, tokenAsked, upstreamCalled,
                  adminLog, confVars, pureVars, streamVars, ringVars, authVars >>

\* acquireAccessToken threw
ChatTokenFail ==
  /\ chatPc = "acquire"
  /\ acqPc["q1"] = "failed"
  /\ Fail("token")
  /\ UNCHANGED << reqKey, reqSession, reqStream, chatCtx, chatHome,
                  chatAccount, chatLookup, headersWritten, tokenAsked,
                  upstreamCalled, adminLog, confVars, pureVars, streamVars, ringVars,
                  authVars >>

\* acquireAccessToken returned: createCopilotConversation sends its request
ChatTokenOk ==
  /\ chatPc = "acquire"
  /\ acqPc["q1"] = "done"
  /\ upstreamCalled' = TRUE
  /\ chatPc' = "create_conv"
  /\ UNCHANGED << reqKey, reqSession, reqStream, chatCtx, chatHome,
                  chatAccount, chatLookup, chatResp, headersWritten, tokenAsked,
                  chatFailure, adminLog, confVars, pureVars, streamVars, ringVars,
                  authVars >>

\* createCopilotConversation throws (fetch rejects or !res.ok)
ChatConvFail ==
  /\ chatPc = "create_conv"
  /\ Fail("conversation")
  /\ UNCHANGED << reqKey, reqSession, reqStream, chatCtx, chatHome,
                  chatAccount, chatLookup, headersWritten, tokenAsked,
                  upstreamCalled, adminLog, confVars, pureVars, streamVars, ringVars,
                  authVars >>

\* the conversation exists: copilotChat or copilotChatOverStream is called
ChatConvOk ==
  /\ chatPc = "create_conv"
  /\ chatPc' = IF reqStream THEN "open_stream" ELSE "chat"
  /\ UNCHANGED << reqKey, reqSession, reqStream, chatCtx, chatHome,
                  chatAccount, chatLookup, chatResp, headersWritten, tokenAsked,
                  upstreamCalled, chatFailure, adminLog, confVars, pureVars, streamVars,
                  ringVars, authVars >>

\* stream = false: copilotChat returned, res.json(...)
ChatChatOk ==
  /\ chatPc = "chat"
  /\ chatResp' = Reply(200, "")
  /\ chatPc' = "done"
  /\ UNCHANGED << reqKey, reqSession, reqStream, chatCtx, chatHome,
                  chatAccount, chatLookup, headersWritten, tokenAsked,
                  upstreamCalled, chatFailure, adminLog, confVars, pureVars, streamVars,
                  ringVars, authVars >>

\* stream = false: copilotChat throws
ChatChatFail ==
  /\ chatPc = "chat"
  /\ Fail("chat")
  /\ UNCHANGED << reqKey, reqSession, reqStream, chatCtx, chatHome,
                  chatAccount, chatLookup, headersWritten, tokenAsked,
                  upstreamCalled, adminLog, confVars, pureVars, streamVars, ringVars,
                  authVars >>

\* the stream headers are written before the upstream is known to be open
ChatOpenFailAfterHead ==
  /\ chatPc = "open_stream"
  /\ headersWritten' = TRUE
  /\ chatFailure' = "open"
  /\ chatPc' = "done"
  /\ UNCHANGED << reqKey, reqSession, reqStream, chatCtx, chatHome,
                  chatAccount, chatLookup, chatResp, tokenAsked, upstreamCalled,
                  adminLog, confVars, pureVars, streamVars, ringVars, authVars >>

\* copilotChatOverStream throws (fetch rejects or !res.ok)
ChatOpenFail ==
  /\ chatPc = "open_stream"
  /\ Fail("open")
  /\ UNCHANGED << reqKey, reqSession, reqStream, chatCtx, chatHome,
                  chatAccount, chatLookup, headersWritten, tokenAsked,
                  upstreamCalled, adminLog, confVars, pureVars, streamVars, ringVars,
                  authVars >>

\* the upstream is open: res.writeHead(200, text/event-stream), then the
\* stream loop of Spec
ChatOpenOk ==
  /\ chatPc = "open_stream"
  /\ headersWritten' = TRUE
  /\ chatPc' = "streaming"
  /\ UNCHANGED << reqKey, reqSession, reqStream, chatCtx, chatHome,
                  chatAccount, chatLookup, chatResp, tokenAsked, upstreamCalled,
                  chatFailure, adminLog, confVars, pureVars, streamVars, ringVars,
                  authVars >>

ChatNext ==
  \/ \E h \in HeaderPool, s \in SessionPool, st \in BOOLEAN :
       \/ ChatBadToken(h, s, st)
       \/ ChatNoContext(h, s, st)
       \/ ChatSession(h, s, st)
       \/ ChatUserKey(h, s, st)
  \/ ChatKeyMiss
  \/ ChatKeyHit
  \/ ChatAccountReply
  \/ ChatLookupFail
  \/ AcqNoToken("q1")
  \/ AcqCacheHit("q1")
  \/ AcqNeedRefresh("q1")
  \/ AcqRefreshed("q1")
  \/ AcqRefreshFailed("q1")
  \/ AcqReturn("q1")
  \/ ChatTokenFail
  \/ ChatTokenOk
  \/ ChatConvFail
  \/ ChatConvOk
  \/ ChatChatOk
  \/ ChatChatFail
  \/ ChatOpenFail
  \/ ChatOpenOk

ChatSpec == AuthInit /\ [][ChatNext]_vars

(***************************************************************************)
(* Properties of the chat request.                                         *)
(***************************************************************************)
\* the request passed the gateway token check
PastGateway == chatPc # "idle" /\ ~(chatResp # << >> /\ chatResp[1].err = "gateway")

\* the cases in which C11 expects an authentication failure
NoKeyNoSession == ~reqKey.present /\ reqSession = ""

KeyTooShort == reqKey.present /\ Len(reqKey.value) <= KeyThreshold

\* C11: when the request carries neither key nor session, or a key not
\* longer than the threshold, or a key whose lookup returned not-found, no
\* account is resolved, acquireAccessToken is not called, no upstream call is
\* made and the response is 401; in every other case in which the lookup
\* returned, exactly one account identity is resolved.
C11_ResolutionFailsOrYieldsOne ==
  PastGateway =>
    /\ (NoKeyNoSession \/ KeyTooShort \/ chatLookup = "notfound") =>
         /\ chatAccount = ""
         /\ ~tokenAsked /\ ~upstreamCalled
         /\ chatPc = "done"
         /\ chatResp = << [ status |-> 401, err |-> chatResp[1].err ] >>
    /\ ( /\ ~(NoKeyNoSession \/ KeyTooShort)
         /\ chatLookup \notin {"notfound", "failed"}
         /\ chatPc \notin {"lookup_key", "lookup_account"} ) =>
         chatAccount \in Accounts

\* C12: a request that carries both a key and a session never takes its
\* account from the session.
C12_KeyBeforeSession ==
  (PastGateway /\ reqKey.present /\ reqSession # "") => chatCtx # "session"

\* C17: when key lookup, token acquisition, conversation creation or the
\* opening of the upstream (or the one-shot chat call) fails, the request is
\* answered by exactly one 500 error body; no stream headers and no chunk
\* are written.
C17_SetupFailureIsOneError ==
  chatFailure # "" =>
    /\ chatPc = "done"
    /\ chatResp = << [ status |-> 500, err |-> "error" ] >>
    /\ ~headersWritten
    /\ out = << >>

\* a streamed request that got its token and its conversation, and then
\* failed to open the upstream
C17_Witness ==
  /\ chatFailure = "open"
  /\ reqStream /\ tokenAsked /\ upstreamCalled
  /\ chatResp = << [ status |-> 500, err |-> "error" ] >>

(***************************************************************************)
(* Key management.  The README lists DELETE /auth/keys/:userKey and        *)
(* POST /auth/keys/:userKey/rotate; src/server.js registers no route under *)
(* /auth/keys, so Express answers such a request 404 and no handler runs.  *)
(***************************************************************************)
\* a request to a path no route matches
Unrouted(op, k) ==
  [ op |-> op, key |-> k, http |-> 404, new_key |-> "",
    bound |-> getAccountByUserKey(k) ]

\* POST /auth/keys/:userKey/rotate
AdminRotate(k) ==
  /\ Len(adminLog) < MaxAdmin
  /\ adminLog' = Append(adminLog, Unrouted("rotate", k))
  /\ UNCHANGED << chatVars, confVars, pureVars, streamVars, ringVars, authVars >>

\* DELETE /auth/keys/:userKey
AdminRevoke(k) ==
  /\ Len(adminLog) < MaxAdmin
  /\ adminLog' = Append(adminLog, Unrouted("revoke", k))
  /\ UNCHANGED << chatVars, confVars, pureVars, streamVars, ringVars, authVars >>

\* key management requests while accounts are onboarded by the device flow
KeyNext ==
  \/ DeviceHandlerStep
  \/ ProviderInitiation
  \/ ProviderOutcome
  \/ \E k \in Keys : AdminRotate(k)
  \/ \E k \in Keys : AdminRevoke(k)

KeySpec == AuthInit /\ [][KeyNext]_vars

\* C18: after a rotate of a live key was served, a new key was returned, the
\* old key resolves to nothing and the new key resolves to the account the
\* old key was bound to.
C18_RotateMovesBinding ==
  \A i \in 1..Len(adminLog) :
    (adminLog[i].op = "rotate" /\ adminLog[i].bound # "") =>
      /\ adminLog[i].http = 200
      /\ adminLog[i].new_key # ""
      /\ getAccountByUserKey(adminLog[i].key) = ""
      /\ getAccountByUserKey(adminLog[i].new_key) = adminLog[i].bound

\* C19: a key whose revocation was served resolves to nothing in every
\* later state.
C19_RevokedStaysUnresolvable ==
  \A i \in 1..Len(adminLog) :
    adminLog[i].op = "revoke" => getAccountByUserKey(adminLog[i].key) = ""

(***************************************************************************)
(* Properties of the stored device transaction.                            *)
(***************************************************************************)
\* the status of the stored record, "absent" when there is none
Status(tx) == IF tx = << >> THEN "absent" ELSE tx[1].status

\* C21 as stated: a record becomes complete or error only from a stored
\* pending record, a complete or error record is never replaced by a record
\* of another status, and no error record is stored once the complete record
\* was written.
C21_OnlyFromPending ==
  [][ /\ (Status(devtx') \in {"complete", "error"} /\ Status(devtx') # Status(devtx))
           => Status(devtx) = "pending"
      /\ Status(devtx) \in {"complete", "error"}
           => Status(devtx') \in {Status(devtx), "absent"}
      /\ completeStored => Status(devtx') # "error"
    ]_vars

\* C21 amended: a record becomes complete or error from a stored pending
\* record or, when none is stored (the initiation failed before the callback
\* ran, or the pending record expired), from no record; a complete or error
\* record is never replaced by a record of another status, and no error
\* record is stored once the complete record was written.
C21_OnlyFromPendingOrAbsent ==
  [][ /\ (Status(devtx') \in {"complete", "error"} /\ Status(devtx') # Status(devtx))
           => Status(devtx) \in {"pending", "absent"}
      /\ Status(devtx) \in {"complete", "error"}
           => Status(devtx') \in {Status(devtx), "absent"}
      /\ completeStored => Status(devtx') # "error"
    ]_vars

\* an error record stored although no pending record ever was
C21_Witness ==
  /\ Status(devtx) = "error"
  /\ cbPc = "none"
  /\ bgPc = "end"

\* C22: while the stored record is complete, its user_key is bound to the
\* account the provider returned, that account's record and token blob are
\* stored, and the key resolves to that account; an error record carries no
\* user_key.
C22_CompleteMeansUsable ==
  /\ Status(devtx) = "complete" =>
       /\ devtx[1].user_key \in Keys
       /\ userkey[devtx[1].user_key] = bgAcct
       /\ bgAcct \in accountRec
       /\ msalBlob[bgAcct] # << >>
       /\ msalBlob[bgAcct][1][bgAcct] # 0
       /\ getAccountByUserKey(devtx[1].user_key) = bgAcct
  /\ Status(devtx) = "error" => devtx[1].user_key = ""

\* the complete record is stored and the caller polled it
C22_Witness ==
  /\ Status(devtx) = "complete"
  /\ bgAcct \in Accounts
  /\ polls # << >> /\ PollIsComplete(polls[Len(polls)])
  /\ getAccountByUserKey(polls[Len(polls)].body.user_key) = bgAcct

(***************************************************************************)
(* Eviction from the diagnostic list.                                      *)
(***************************************************************************)
\* the entries of the list before a step that are gone after it
Evicted(before, after) ==
  { i \in 1..Len(before) : \A j \in 1..Len(after) : after[j].seq # before[i].seq }

\* C23: under every interleaving of the LPUSH and LTRIM steps of concurrent
\* streams the list stays within DEBUG_EVENT_LIMIT entries, and a step evicts
\* an entry only if every entry it keeps is newer.
C23_ConcurrentPushesEvictOldestFirst ==
  [][ /\ Len(debugList') <= DEBUG_EVENT_LIMIT
      /\ \A i \in Evicted(debugList, debugList') :
           \A j \in 1..Len(debugList') : debugList'[j].seq > debugList[i].seq
    ]_vars

(***************************************************************************)
(* The end of the upstream.                                                *)
(***************************************************************************)
\* the read that is due will report the end of the upstream
AtUpstreamEnd == pc = "read" /\ wire = "" /\ upEnded

\* C26: from the read that reports the end of the upstream on, whatever is
\* left in carry is not processed: the handler goes on to the terminal
\* sequence, and the block counter, the parse-failure counter, the diagnostic
\* list, the text deltas and fullText stay as they are.
C26_UnterminatedTailIgnored ==
  [][ (AtUpstreamEnd \/ pc = "finish") =>
        /\ pc' \in {"finish", "done"}
        /\ blocks' = blocks /\ jsonFail' = jsonFail
        /\ debugList' = debugList
        /\ EmittedDeltas' = EmittedDeltas
        /\ fullText' = fullText
    ]_vars

\* the upstream ended after "Hi" with a complete event for "Hi there" that
\* lacks its blank line
C26_Witness ==
  /\ pc = "done"
  /\ upEnded /\ wire = ""
  /\ carry = "data: " \o MsgPayload("Hi there")
  /\ fullText = "Hi"
  /\ EmittedDeltas = << "Hi" >>
  /\ blocks = 1 /\ jsonFail = 0
  /\ Len(debugList) = 1

(***************************************************************************)
(* extractBestTextFromEvent as a function of its arguments                 *)
(* (src/server.js 312-342).                                                *)
(***************************************************************************)
\* the messages an event can hold: without text, with empty text, with a
\* text, with the echoed prompt, with the echoed prompt and a line end, and
\* with its text in the content member
MsgKinds ==
  { [ text |-> Absent, content |-> Absent, mtext |-> Absent ],
    Msg(""), Msg("Hi"), Msg(Prompt), Msg(Prompt \o "\n"),
    [ text |-> Absent, content |-> << "Yo" >>, mtext |-> Absent ] }

\* the message lists of up to MaxMsgs messages
MsgLists == UNION { [ 1..n -> MsgKinds ] : n \in 0..MaxMsgs }

\* a member that is absent or holds a list
OptLists == { Absent } \cup { << ms >> : ms \in MsgLists }

ExtractInit ==
  /\ EMPTY_RESPONSE_HINT = TRUE
  /\ DEBUG_EVENT_LIMIT = StreamLimit
  /\ wire = "" /\ upEnded = FALSE /\ sent = 0
  /\ pc = "read" /\ carry = "" /\ fullText = "" /\ blocks = 0 /\ jsonFail = 0
  /\ curPayload = "" /\ out = << >> /\ closed = FALSE /\ disconnected = FALSE
  /\ texts = << >>
  /\ debugList = << >>
  /\ pushPc = [ p \in Callers |-> "idle" ]
  /\ pushObj = [ p \in Callers |-> NoEntry ]
  /\ pushed = 0
  /\ AuthIdle
  /\ ReqIdle
  /\ exObj \in { Obj(m, w, FALSE) : m \in OptLists, w \in OptLists }
  /\ exEcho \in { Prompt, "" }
  /\ exResult = Absent
  /\ exPc = "idle"
  /\ spAll = "" /\ spRest = "" /\ spCarry = "" /\ spFull = ""
  /\ spBlocks = 0 /\ spFail = 0
  /\ spDeltas = << >>

\* const text = extractBestTextFromEvent(obj, prompt) is entered
ExtractCall ==
  /\ exPc = "idle"
  /\ exPc' = "called"
  /\ UNCHANGED << exObj, exEcho, exResult, splitVars, confVars, streamVars,
                  ringVars, authVars, reqVars >>

\* and returns
ExtractReturn ==
  /\ exPc = "called"
  /\ exResult' = extractBestTextFromEvent(exObj, exEcho)
  /\ exPc' = "returned"
  /\ UNCHANGED << exObj, exEcho, splitVars, confVars, streamVars, ringVars,
                  authVars, reqVars >>

ExtractNext == ExtractCall \/ ExtractReturn

ExtractSpec == ExtractInit /\ [][ExtractNext]_vars

\* the message has a non-empty text
HasText(m) ==
  \/ (m.text # Absent /\ m.text[1] # "")
  \/ (m.text = Absent /\ m.content # Absent /\ m.content[1] # "")
  \/ (m.text = Absent /\ m.content = Absent /\ m.mtext # Absent /\ m.mtext[1] # "")

\* the text of a message that has one
TextOf(m) ==
  IF m.text # Absent THEN m.text[1]
  ELSE IF m.content # Absent THEN m.content[1]
  ELSE m.mtext[1]

\* r is the text of the last message of ms that has a text
IsLastText(ms, r) ==
  \E i \in 1..Len(ms) :
    /\ HasText(ms[i]) /\ r = << TextOf(ms[i]) >>
    /\ \A j \in (i + 1)..Len(ms) : ~HasText(ms[j])

\* r is the text of the last message of ms whose text is not the echo,
\* compared as written (exact) or after trimming both
IsLastNonEcho(ms, echo, exact, r) ==
  LET same(t) == /\ echo # ""
                 /\ IF exact THEN t = echo ELSE Trim(t) = Trim(echo)
  IN  \E i \in 1..Len(ms) :
        /\ HasText(ms[i]) /\ ~same(TextOf(ms[i])) /\ r = << TextOf(ms[i]) >>
        /\ \A j \in (i + 1)..Len(ms) : ~HasText(ms[j]) \/ same(TextOf(ms[j]))

\* some message of ms has a text that is not the echo
SomeNonEcho(ms, echo, exact) ==
  \E i \in 1..Len(ms) :
    /\ HasText(ms[i])
    /\ ~(echo # "" /\ IF exact THEN TextOf(ms[i]) = echo
                       ELSE Trim(TextOf(ms[i])) = Trim(echo))

SomeText(ms) == \E i \in 1..Len(ms) : HasText(ms[i])

\* the rule of C24 for one list: the last text that is not the echo, else the
\* last text
FollowsRule(ms, echo, exact, r) ==
  IF SomeNonEcho(ms, echo, exact) THEN IsLastNonEcho(ms, echo, exact, r)
  ELSE SomeText(ms) => IsLastText(ms, r)

\* the list the function reads its answer from, as C24 tells it: the primary
\* list when it is present and not empty, the wrapped list when the primary
\* list is absent
StatedList ==
  IF exObj.messages # Absent /\ exObj.messages[1] # << >> THEN exObj.messages[1]
  ELSE IF exObj.messages = Absent /\ exObj.wrapped # Absent THEN exObj.wrapped[1]
  ELSE << >>

\* C24 as stated: the answer is the text of the last message of the primary
\* list whose text does not exactly equal the echoed prompt, or the last
\* message text when all texts equal it; the wrapped list is read by the same
\* rule when the primary list is absent; and there is no text only when no
\* message of the chosen list has a text.
C24_ExactEchoSameRule ==
  exPc = "returned" =>
    /\ FollowsRule(StatedList, exEcho, TRUE, exResult)
    /\ (exResult = Absent => ~SomeText(StatedList))

\* C24, amended: the answer is the text of the last message of the primary
\* list whose trimmed text differs from the trimmed echoed prompt, or the last
\* message text when all texts equal it; when the primary list is absent,
\* empty or without any text, the answer is the last message text of the
\* wrapped list, the echoed prompt included; and there is no text exactly
\* when neither list has a message with a text.
C24_TrimmedEchoPrimaryOnly ==
  exPc = "returned" =>
    LET prim == IF exObj.messages = Absent THEN << >> ELSE exObj.messages[1]
        wrap == IF exObj.wrapped = Absent THEN << >> ELSE exObj.wrapped[1]
    IN  IF SomeText(prim)
          THEN /\ exResult # Absent
               /\ FollowsRule(prim, exEcho, FALSE, exResult)
          ELSE IF SomeText(wrap) THEN IsLastText(wrap, exResult)
          ELSE exResult = Absent

\* the echoed prompt with a line end after an answer in the primary list: the
\* answer is returned
C24_Witness ==
  /\ exPc = "returned"
  /\ exEcho = Prompt
  /\ exObj.messages = << << Msg("Hi"), Msg(Prompt \o "\n") >> >>
  /\ exResult = << "Hi" >>

(***************************************************************************)
(* The read loop as a function of the upstream text and of the way the     *)
(* reads divide it (src/server.js 601-604, 634-678).  pushDebugEvent is    *)
(* awaited inside the loop; it catches its own errors and touches none of  *)
(* carry, fullText, blocks, jsonFail, so that one read and the blocks it   *)
(* completes are one step here.                                            *)
(***************************************************************************)
SplitPool ==
  { "data: " \o MsgPayload("Hi"),
    "data: " \o MsgPayload("Hi there"),
    "data: " \o BadPayload,
    ": ping" }

RECURSIVE Upstream(_)
\* the text of the blocks bs, each ended by a blank line
Upstream(bs) ==
  IF bs = << >> THEN "" ELSE Head(bs) \o "\n\n" \o Upstream(Tail(bs))

\* the upstream texts: up to MaxSplitBlocks blocks
SplitTexts ==
  { Upstream(bs) :
      bs \in UNION { [ 1..n -> SplitPool ] : n \in 0..MaxSplitBlocks } }

\* let carry = ""; let fullText = ""; let blocks = 0; let jsonFail = 0;
LoopStart ==
  [ carry |-> "", full |-> "", blocks |-> 0, fail |-> 0, deltas |-> << >> ]

\* one turn of the inner loop for the first block of carry (644-677)
TakeBlock(st) ==
  LET block == NextBlock(st.carry)
      kind == BlockKind(block)
      text == IF kind = "event"
              THEN extractBestTextFromEvent(ParseJSON(Payload(block)).obj, Prompt)
              ELSE Absent
      adv == Advances(text, st.full)
  IN  [ carry |-> AfterBlock(st.carry),
        blocks |-> st.blocks + 1,
        fail |-> IF kind = "bad" THEN st.fail + 1 ELSE st.fail,
        full |-> IF adv THEN text[1] ELSE st.full,
        deltas |-> IF adv /\ Delta(text[1], st.full) # ""
                   THEN Append(st.deltas, Delta(text[1], st.full))
                   ELSE st.deltas ]

RECURSIVE Drain(_)
\* while (true) { idx = carry.indexOf("\n\n"); if (idx == -1) break; ... }
Drain(st) == IF HasBlock(st.carry) THEN Drain(TakeBlock(st)) ELSE st

SplitInit ==
  /\ EMPTY_RESPONSE_HINT = TRUE
  /\ DEBUG_EVENT_LIMIT = StreamLimit
  /\ wire = "" /\ upEnded = FALSE /\ sent = 0
  /\ pc = "read" /\ carry = "" /\ fullText = "" /\ blocks = 0 /\ jsonFail = 0
  /\ curPayload = "" /\ out = << >> /\ closed = FALSE /\ disconnected = FALSE
  /\ texts = << >>
  /\ debugList = << >>
  /\ pushPc = [ p \in Callers |-> "idle" ]
  /\ pushObj = [ p \in Callers |-> NoEntry ]
  /\ pushed = 0
  /\ AuthIdle
  /\ ReqIdle
  /\ exObj = Obj(Absent, Absent, FALSE) /\ exEcho = "" /\ exResult = Absent
  /\ exPc = "idle"
  /\ spAll \in SplitTexts
  /\ spRest = spAll
  /\ spCarry = LoopStart.carry /\ spFull = LoopStart.full
  /\ spBlocks = LoopStart.blocks /\ spFail = LoopStart.fail
  /\ spDeltas = LoopStart.deltas

\* the read forgets what the reads before it left in carry
SplitReadFresh(k) ==
  /\ k \in 1..Len(spRest)
  /\ \E st \in { Drain([ carry |-> Slice(spRest, 0, k), full |-> spFull,
                           blocks |-> spBlocks, fail |-> spFail,
                           deltas |-> spDeltas ]) } :
         /\ spCarry' = st.carry
         /\ spFull' = st.full
         /\ spBlocks' = st.blocks
         /\ spFail' = st.fail
         /\ spDeltas' = st.deltas
  /\ spRest' = SliceFrom(spRest, k)
  /\ UNCHANGED << spAll, extractVars, confVars, streamVars, ringVars, authVars,
                  reqVars >>

\* reader.read() yields the next k characters; carry += ...; then every
\* block that is complete in carry is taken
SplitRead(k) ==
  /\ k \in 1..Len(spRest)
  /\ \E st \in { Drain([ carry |-> spCarry \o Slice(spRest, 0, k), full |-> spFull,
                           blocks |-> spBlocks, fail |-> spFail,
                           deltas |-> spDeltas ]) } :
         /\ spCarry' = st.carry
         /\ spFull' = st.full
         /\ spBlocks' = st.blocks
         /\ spFail' = st.fail
         /\ spDeltas' = st.deltas
  /\ spRest' = SliceFrom(spRest, k)
  /\ UNCHANGED << spAll, extractVars, confVars, streamVars, ringVars, authVars,
                  reqVars >>

SplitNext == \E k \in 1..Len(spRest) : SplitRead(k)

SplitSpec == SplitInit /\ [][SplitNext]_vars

\* the text the reads have delivered so far
SplitSoFar == Slice(spAll, 0, Len(spAll) - Len(spRest))

\* C25: the delta chunks, the block counter and the parse-failure counter
\* after any sequence of reads are those of a single read that delivers the
\* same text at once, so that two partitions of one upstream text give the
\* same deltas and counters.
C25_PartitionIndependent ==
  LET once == Drain([ LoopStart EXCEPT !.carry = SplitSoFar ])
  IN  /\ spDeltas = once.deltas
      /\ spBlocks = once.blocks
      /\ spFail = once.fail

\* a read has ended between the two line ends that close the second block,
\* after a delta from the first
C25_Witness ==
  /\ spDeltas = << "Hi" >>
  /\ spBlocks = 1
  /\ spCarry = "data: " \o MsgPayload("Hi there") \o "\n"
  /\ StartsWith(spRest, "\n")

=============================================================================
